---- MODULE Spec2Model ----
(***************************************************************************)
(* Model of strategies/tf_strategy.py (class TrendFollow): one invocation  *)
(* of generate_signal is one atomic step of the strategy; every broker     *)
(* call, order-log write and assignment it performs is recorded, in order, *)
(* in the trace of that invocation.                                        *)
(*                                                                         *)
(* Times are seconds.  Prices and volumes are integers.  The float         *)
(* comparisons of the code (x > h * 0.999, v > mean * 1.5, int(n * v/mean)) *)
(* are computed exactly, cross-multiplied; on the values used here the     *)
(* double-precision results agree with the exact ones.                     *)
(***************************************************************************)
EXTENDS Integers, Sequences, FiniteSets, TLC

VARIABLES
    tape,              \* the market's 1-min bars of today, oldest first (broker side)
    now,               \* wall clock, datetime.now() of the last invocation
    backtest_mode,     \* self.backtest_mode
    faulty,            \* whether collaborator calls may raise in this behaviour
    last_signal_time,  \* self.last_signal_time
    last_data_time,    \* self.last_data_time
    last_entry_price,  \* self.last_entry_price
    order_book,        \* the lines of result/order_book.txt
    cycles,            \* invocations so far
    inv,               \* the last invocation: its inputs, its trace, how it ended
    sizing,            \* the last direct call of get_dynamic_volume
    writers,           \* per strategy instance: where its thread is in write_order
    locks              \* per strategy instance: whether self.lock is held

vars == <<tape, now, backtest_mode, faulty, last_signal_time, last_data_time,
          last_entry_price, order_book, cycles, inv, sizing, writers, locks>>

---------------------------------------------------------------------------
\* Bounds of the model.
MaxCycles == 2      \* invocations of generate_signal in one behaviour
MaxRetry == 4       \* largest max_retry a direct place_with_retry call is given
MaxTd == 2          \* today's lots of a held side, as the broker reports them
MaxYd == 1          \* carried-over lots of a held side
MaxCalls == 40      \* collaborator calls among which a fault may be injected
MaxTradeNum == 6    \* largest trade_num a direct get_dynamic_volume call is given
MaxVolume == 12     \* largest current_volume of such a call
MaxWindowSum == 14  \* largest sum of the window's volumes of such a call
MaxInstances == 2   \* strategy instances logging to the one order log
MaxWrites == 1      \* write_order calls of one instance

\* Program constants (defaults of __init__, arguments, literals).
None == -1
window_size == 5
VolumeThresholdNum == 3     \* volume_threshold = 1.5 = 3/2
VolumeThresholdDen == 2
min_interval == 5
take_profit == 10
stop_loss == 5
price_tick == 1
trade_num == 1
trade_offset == 3
candle_count == 30
StaleSeconds == 3600
DefaultMaxRetry == 3
MaxLots == 5
BUY == 2
SELL == 3
OPEN == 1
CLOSE_TODAY == 4

---------------------------------------------------------------------------
\* Sequences and arithmetic.
Max(S) == CHOOSE x \in S : \A y \in S : y <= x
Min(S) == CHOOSE x \in S : \A y \in S : x <= y

RECURSIVE SumVolume(_)
SumVolume(bars) ==
    IF bars = <<>> THEN 0 ELSE bars[1].Volume + SumVolume(Tail(bars))

\* data[::-1]
Reverse(seq) == [i \in 1..Len(seq) |-> seq[Len(seq) + 1 - i]]

Bar(t, h, l, c, v) == [Time |-> t, High |-> h, Low |-> l, Close |-> c, Volume |-> v]

\* broker.get_candles(instrument, "1min", count, cut_yesterday=True): at most
\* count bars of today, the most recent first.
get_candles(tp, count) ==
    LET n == IF Len(tp) < count THEN Len(tp) ELSE count
    IN  [i \in 1..n |-> tp[Len(tp) + 1 - i]]

\* long_tdPosition + long_ydPosition, short_tdPosition + short_ydPosition
long_quantity(pd) == pd.long_tdPosition + pd.long_ydPosition
short_quantity(pd) == pd.short_tdPosition + pd.short_ydPosition

---------------------------------------------------------------------------
\* The trace of an invocation.
Event(op, site, id, direction, offset, price, volume, label, ok) ==
    [op |-> op, site |-> site, id |-> id, direction |-> direction, offset |-> offset,
     price |-> price, volume |-> volume, label |-> label, ok |-> ok]

\* Mutant: the failure of a call is swallowed and execution goes on.
Call_Swallowed(s, e) ==
    IF s.calls + 1 = s.failAt
    THEN [s EXCEPT !.calls = @ + 1, !.events = Append(@, [e EXCEPT !.ok = FALSE])]
    ELSE [s EXCEPT !.calls = @ + 1, !.events = Append(@, e)]

\* A call that may raise: the failAt-th call of the invocation raises, and
\* nothing after a raise is executed.
Call(s, e) ==
    IF s.raised THEN s
    ELSE IF s.calls + 1 = s.failAt
         THEN [s EXCEPT !.raised = TRUE, !.calls = @ + 1,
                        !.events = Append(@, [e EXCEPT !.ok = FALSE])]
         ELSE [s EXCEPT !.calls = @ + 1, !.events = Append(@, e)]

Assign(s, name, value) ==
    IF s.raised THEN s
    ELSE LET e == Event("assign", name, 0, 0, 0, value, 0, "", TRUE)
             t == [s EXCEPT !.events = Append(@, e)]
         IN  CASE name = "last_signal_time" -> [t EXCEPT !.lst = value]
               [] name = "last_data_time" -> [t EXCEPT !.ldt = value]
               [] name = "last_entry_price" -> [t EXCEPT !.lep = value]

Exit(s, how) == IF s.raised THEN [s EXCEPT !.exit = "raised"] ELSE [s EXCEPT !.exit = how]

---------------------------------------------------------------------------
\* Mutant: an unknown type is logged as a buy-open.
OrderLabel_Lenient(type) ==
    CASE type = 1 -> "buy_open"
      [] type = 2 -> "buy_close"
      [] type = 3 -> "sell_open"
      [] type = 4 -> "sell_close"
      [] OTHER -> "buy_open"

\* write_order: the line's action label by type; any other type raises.
OrderLabel(type) ==
    CASE type = 1 -> "buy_open"
      [] type = 2 -> "buy_close"
      [] type = 3 -> "sell_open"
      [] type = 4 -> "sell_close"
      [] OTHER -> "invalid"

write_order(s, type, point, site) ==
    IF s.raised THEN s
    ELSE IF OrderLabel(type) = "invalid"
         THEN [s EXCEPT !.raised = TRUE,
                        !.events = Append(@, Event("write_order", site, 0, 0, type, point, 0,
                                                   "invalid", FALSE))]
         ELSE LET e == Event("write_order", site, 0, 0, type, point, 0, OrderLabel(type), TRUE)
                  t == Call(s, e)
              IN  IF t.raised THEN t
                  ELSE [t EXCEPT !.book = Append(@, [label |-> OrderLabel(type),
                                                      point |-> point])]

\* Order(...) as built from the template at the current price.
Order(direction, offset, price, volume) ==
    [direction |-> direction, offset |-> offset, price |-> price, volume |-> volume]

\* broker.place_order(order): returns a fresh identifier.
place_order(s, order, site) ==
    IF s.raised THEN s
    ELSE LET t == Call(s, Event("place_order", site, s.nid + 1, order.direction, order.offset,
                                order.price, order.volume, "", TRUE))
         IN  IF t.raised THEN t ELSE [t EXCEPT !.nid = @ + 1]

\* Mutant: the order is left on the book.
cancel_order_Dropped(s, order_id, site) == s

\* broker.cancel_order(order_id)
cancel_order(s, order_id, site) ==
    Call(s, Event("cancel_order", site, order_id, 0, 0, 0, 0, "", TRUE))

\* Mutant: the price is raised whatever the direction.
Reprice_AlwaysUp(price, direction) == price + price_tick

\* price += price_tick if direction == 2 else price -= price_tick
Reprice(price, direction) ==
    IF direction = BUY THEN price + price_tick ELSE price - price_tick

\* place_with_retry: the body of the for loop, from attempt `retry` on.
RECURSIVE RetryLoop(_, _, _, _, _, _, _)
RetryLoop(s, order_proto, direction, price, retry, max_retry, site) ==
    IF retry >= max_retry \/ s.raised THEN s
    ELSE LET order == Order(order_proto.direction, order_proto.offset, price,
                            order_proto.volume)
             s1 == place_order(s, order, site)
             order_id == s1.nid
             s2 == write_order(s1, order_proto.offset, price, site)
             s3 == cancel_order(s2, order_id, site)
         IN  RetryLoop(s3, order_proto, direction, Reprice(price, direction), retry + 1,
                       max_retry, site)

place_with_retry(s, order_proto, direction, max_retry, site) ==
    RetryLoop(s, order_proto, direction, order_proto.price, 0, max_retry, site)

---------------------------------------------------------------------------
\* The window of the latest bar and what is read from it.
latest_index(data) == Len(data) - 1

window_data(data) ==
    LET start_idx == Max({0, latest_index(data) - window_size})
        end_idx == Min({Len(data), latest_index(data) + window_size + 1})
    IN  SubSeq(data, start_idx + 1, end_idx)

current_price(data) == data[latest_index(data) + 1].Close
current_volume(data) == data[latest_index(data) + 1].Volume
current_time(data) == data[latest_index(data) + 1].Time
window_high(data) == Max({window_data(data)[i].High : i \in 1..Len(window_data(data))})
window_low(data) == Min({window_data(data)[i].Low : i \in 1..Len(window_data(data))})
window_volume_sum(data) == SumVolume(window_data(data))
window_volume_n(data) == Len(window_data(data))

\* get_dynamic_volume, with window_volume_mean = sum / n:
\* max(1, min(int(trade_num * current_volume / mean), 5))
\* int(num / den) for den > 0: truncation toward zero.
Trunc(num, den) == IF num >= 0 THEN num \div den ELSE -((-num) \div den)

\* Mutant: the volume is not capped.
dynamic_volume_for_Uncapped(base_volume, cur_volume, vol_sum, vol_n) ==
    LET volume == IF vol_sum > 0 THEN Trunc(base_volume * cur_volume * vol_n, vol_sum)
                  ELSE base_volume
    IN  Max({1, volume})

\* The body of get_dynamic_volume for base_volume = self.trade_num:
\* strength = current_volume / mean if mean > 0 else 1
dynamic_volume_for(base_volume, cur_volume, vol_sum, vol_n) ==
    LET volume == IF vol_sum > 0 THEN Trunc(base_volume * cur_volume * vol_n, vol_sum)
                  ELSE base_volume
    IN  Max({1, Min({volume, MaxLots})})

get_dynamic_volume(cur_volume, vol_sum, vol_n) ==
    dynamic_volume_for(trade_num, cur_volume, vol_sum, vol_n)

\* Mutant: no 0.1% tolerance under the window high.
price_breakout_NoTolerance(price, high) == price > high

\* current_price > window_high * 0.999
price_breakout(price, high) == 1000 * price > 999 * high

\* current_price < window_low * 1.001
price_breakdown(price, low) == 1000 * price < 1001 * low

\* current_volume > window_volume_mean * volume_threshold
volume_surge(cur_volume, vol_sum, vol_n) ==
    cur_volume * vol_n * VolumeThresholdDen > vol_sum * VolumeThresholdNum

\* Mutant: the gate is always open.
check_min_interval_Open(lst, cur_time) == TRUE

\* _check_min_interval, for datetime timestamps: minutes elapsed >= min_interval
check_min_interval(lst, cur_time) ==
    IF lst = None THEN TRUE ELSE cur_time - lst >= min_interval * 60

UpCondition(price, high) == price >= high \/ price_breakout(price, high)
DownCondition(price, low) == price <= low \/ price_breakdown(price, low)

\* Mutant: the thresholds themselves do not trigger the exit.
RiskExit_Strict(profit) == profit > take_profit \/ profit < -stop_loss

\* profit >= take_profit or profit <= -stop_loss
RiskExit(profit) == profit >= take_profit \/ profit <= -stop_loss

---------------------------------------------------------------------------
\* generate_signal, after the data guards.  What it reads from the bars:
\* current_price, current_volume, window_high, window_low, window_volume_mean
\* (as sum and count), current_time.
Features(data) ==
    [price |-> current_price(data), volume |-> current_volume(data),
     time |-> current_time(data), high |-> window_high(data), low |-> window_low(data),
     vol_sum |-> window_volume_sum(data), vol_n |-> window_volume_n(data)]

dynamic_volume(f) == get_dynamic_volume(f.volume, f.vol_sum, f.vol_n)

CloseLongProto(f, long_position) == Order(SELL, CLOSE_TODAY, f.price - 1, long_position)

CloseShortProto(f, short_position) == Order(BUY, CLOSE_TODAY, f.price + 1, short_position)

OpenLongProto(f) == Order(BUY, OPEN, f.price + trade_offset, dynamic_volume(f))

OpenShortProto(f) == Order(SELL, OPEN, f.price - trade_offset, dynamic_volume(f))

\* if long_position > 0 and self.last_entry_price is not None: ...
LongRiskFires(lep, f, long_position) ==
    /\ long_position > 0
    /\ lep # None
    /\ RiskExit(f.price - lep)

\* if short_position > 0 and self.last_entry_price is not None: ...
ShortRiskFires(lep, f, short_position) ==
    /\ short_position > 0
    /\ lep # None
    /\ RiskExit(lep - f.price)

\* Mutant: last_entry_price is cleared whether or not the exit fires.
long_risk_exit_AlwaysClear(s, f, long_position) ==
    IF s.raised THEN s
    ELSE IF ~LongRiskFires(s.lep, f, long_position) THEN Assign(s, "last_entry_price", None)
    ELSE Assign(place_with_retry(s, CloseLongProto(f, long_position), SELL,
                                 DefaultMaxRetry, "risk_long"),
                "last_entry_price", None)

long_risk_exit(s, f, long_position) ==
    IF s.raised \/ ~LongRiskFires(s.lep, f, long_position) THEN s
    ELSE Assign(place_with_retry(s, CloseLongProto(f, long_position), SELL,
                                 DefaultMaxRetry, "risk_long"),
                "last_entry_price", None)

short_risk_exit(s, f, short_position) ==
    IF s.raised \/ ~ShortRiskFires(s.lep, f, short_position) THEN s
    ELSE Assign(place_with_retry(s, CloseShortProto(f, short_position), BUY,
                                 DefaultMaxRetry, "risk_short"),
                "last_entry_price", None)

BreakoutUp(lst, f) ==
    /\ UpCondition(f.price, f.high)
    /\ volume_surge(f.volume, f.vol_sum, f.vol_n)
    /\ check_min_interval(lst, f.time)

BreakoutDown(lst, f) ==
    /\ ~BreakoutUp(lst, f)
    /\ DownCondition(f.price, f.low)
    /\ volume_surge(f.volume, f.vol_sum, f.vol_n)
    /\ check_min_interval(lst, f.time)

relog(s) == Call(s, Event("relog", "open", 0, 0, 0, 0, 0, "", TRUE))

\* Mutant: the long is opened before the short is closed.
open_long_branch_OpenFirst(s, f, short_position) ==
    LET s1 == relog(s)
        s2 == place_with_retry(s1, OpenLongProto(f), BUY, DefaultMaxRetry, "open_long")
        s3 == IF short_position > 0
              THEN place_with_retry(s2, CloseShortProto(f, short_position), BUY,
                                    DefaultMaxRetry, "reverse_short")
              ELSE s2
        s4 == Assign(s3, "last_signal_time", f.time)
    IN  Assign(s4, "last_entry_price", f.price)

open_long_branch(s, f, short_position) ==
    LET s1 == IF short_position > 0
              THEN place_with_retry(s, CloseShortProto(f, short_position), BUY,
                                    DefaultMaxRetry, "reverse_short")
              ELSE s
        s2 == relog(s1)
        s3 == place_with_retry(s2, OpenLongProto(f), BUY, DefaultMaxRetry, "open_long")
        s4 == Assign(s3, "last_signal_time", f.time)
    IN  Assign(s4, "last_entry_price", f.price)

open_short_branch(s, f, long_position) ==
    LET s1 == IF long_position > 0
              THEN place_with_retry(s, CloseLongProto(f, long_position), SELL,
                                    DefaultMaxRetry, "reverse_long")
              ELSE s
        s2 == relog(s1)
        s3 == place_with_retry(s2, OpenShortProto(f), SELL, DefaultMaxRetry, "open_short")
        s4 == Assign(s3, "last_signal_time", f.time)
    IN  Assign(s4, "last_entry_price", f.price)

signal_branches(s, f, long_position, short_position) ==
    IF s.raised THEN s
    ELSE IF BreakoutUp(s.lst, f) THEN open_long_branch(s, f, short_position)
    ELSE IF BreakoutDown(s.lst, f) THEN open_short_branch(s, f, long_position)
    ELSE s

get_position(s, site) == Call(s, Event("get_position", site, 0, 0, 0, 0, 0, "", TRUE))

detect_and_trade(s, data, position_dict) ==
    LET f == Features(data)
        long_position == long_quantity(position_dict)
        short_position == short_quantity(position_dict)
        s1 == get_position([s EXCEPT !.f = f], "second")
        s2 == long_risk_exit(s1, f, long_position)
        s3 == short_risk_exit(s2, f, short_position)
    IN  Exit(signal_branches(s3, f, long_position, short_position), "returned")

\* The record of an invocation keeps what it read of the bars: len(data) and
\* data.index[0] here, the window's figures in detect_and_trade.
Fetched(s, data) ==
    IF s.raised THEN s
    ELSE [s EXCEPT !.data_len = Len(data),
                   !.index0 = IF Len(data) > 0 THEN data[1].Time ELSE None]

\* The data guards.
\* Mutant: one window of bars is taken to be enough.
InsufficientData_OneWindow(data) == Len(data) < window_size

InsufficientData(data) == Len(data) < window_size * 2

\* self.last_data_time is not None and data.index[0] == self.last_data_time
DuplicateData(ldt, data) == ldt # None /\ data[1].Time = ldt

\* Mutant: old data is skipped in backtest mode too.
StaleSkip_AnyMode(wall_clock, data, backtest) == wall_clock - data[1].Time > StaleSeconds

\* time_diff.total_seconds() > 3600 and not backtest: skip
StaleSkip(wall_clock, data, backtest) ==
    wall_clock - data[1].Time > StaleSeconds /\ ~backtest

generate_signal(s, candles, wall_clock, position_dict, backtest) ==
    LET s1 == Call(s, Event("get_candles", "fetch", 0, 0, 0, 0, 0, "", TRUE))
        data == Reverse(candles)
        s2 == Fetched(get_position(s1, "first"), data)
    IN  IF s2.raised THEN Exit(s2, "raised")
        ELSE IF InsufficientData(data) THEN Exit(s2, "insufficient")
        ELSE IF DuplicateData(s2.ldt, data) THEN Exit(s2, "duplicate")
        ELSE IF StaleSkip(wall_clock, data, backtest) THEN Exit(s2, "stale")
        ELSE LET s3 == Assign(s2, "last_data_time", data[1].Time)
             IN  IF latest_index(data) < window_size THEN Exit(s3, "short_index")
                 ELSE detect_and_trade(s3, data, position_dict)

---------------------------------------------------------------------------
\* The environment: the market's bars, the broker's position reports, the clock.
FlatBar(t) == Bar(t, 2000, 2000, 2000, 1)

\* The bars of the session so far when the strategy starts: one short of the
\* 2 * window_size the detector needs, or one short of the count it fetches.
WarmUpLengths == {2 * window_size - 1, candle_count - 1}
WarmUp(n) == [i \in 1..n |-> FlatBar(60 * (i - 1))]

\* <<close, wick>>: a bar has High = close + wick and Low = close - wick.
BarShapes == {<<1995, 0>>, <<1999, 0>>, <<2000, 0>>, <<2009, 0>>, <<2000, 5>>}
BarVolumes == {1, 3}
BarGaps == {60, 300}

NewBars(tp) ==
    {Bar(tp[Len(tp)].Time + g, sh[1] + sh[2], sh[1] - sh[2], sh[1], v) :
        g \in BarGaps, sh \in BarShapes, v \in BarVolumes}

\* Age of the newest bar when the strategy reads the clock.
Lags == {0, 3060, 7200}

\* Faults are explored on fresh data; staleness is explored without faults.
CycleLags == IF faulty THEN {0} ELSE Lags

\* A side is flat, or held with today's and carried-over lots.
SideLots == {<<0, 0>>, <<MaxTd, MaxYd>>}
PositionReports ==
    {[long_tdPosition |-> l[1], long_ydPosition |-> l[2],
      short_tdPosition |-> sh[1], short_ydPosition |-> sh[2]] : l \in SideLots, sh \in SideLots}

NoPosition ==
    [long_tdPosition |-> 0, long_ydPosition |-> 0, short_tdPosition |-> 0, short_ydPosition |-> 0]

NoFeatures ==
    [price |-> 0, volume |-> 0, time |-> 0, high |-> 0, low |-> 0, vol_sum |-> 0, vol_n |-> 0]

\* The collaborator call of an invocation that raises (0: none), among the
\* calls the invocation makes when none raises.
FailPoints(calls) == IF faulty THEN 0..Min({calls, MaxCalls}) ELSE {0}

Start(fail_at) ==
    [lst |-> last_signal_time, ldt |-> last_data_time, lep |-> last_entry_price,
     book |-> order_book, events |-> <<>>, raised |-> FALSE, calls |-> 0,
     failAt |-> fail_at, nid |-> 0, exit |-> "running", data_len |-> 0, index0 |-> None,
     f |-> NoFeatures, new_orders |-> <<>>]

\* The direction of the last opening sequence issued so far.
Opened(events, before) ==
    IF \E i \in 1..Len(events) : events[i].op = "place_order" /\ events[i].site = "open_long"
    THEN "up"
    ELSE IF \E i \in 1..Len(events) :
                events[i].op = "place_order" /\ events[i].site = "open_short"
         THEN "down"
         ELSE before

NoInvocation ==
    [kind |-> "none", new_bar |-> FALSE, position |-> NoPosition,
     pre |-> [lst |-> None, ldt |-> None, lep |-> None, book |-> <<>>, opened |-> "none"],
     opened |-> "none", exit |-> "none", events |-> <<>>, max_retry |-> 0, direction |-> 0,
     proto |-> Order(0, 0, 0, 0), data_len |-> 0, index0 |-> None, f |-> NoFeatures,
     new_orders |-> <<>>]

\* No direct call of get_dynamic_volume yet.
NoSizing == [called |-> FALSE, trade_num |-> 0, cur_volume |-> 0, vol_sum |-> 0, vol_n |-> 1,
             volume |-> 0]

\* The strategy instances of one process, one thread each, and the thread of
\* an instance outside write_order.
Instances == 1..MaxInstances
IdleWriter == [pc |-> "idle", type |-> 0, point |-> 0, calls |-> 0, wrote |-> FALSE]

---------------------------------------------------------------------------
InitState ==
    /\ tape \in {WarmUp(n) : n \in WarmUpLengths}
    /\ now = tape[Len(tape)].Time
    /\ backtest_mode \in BOOLEAN
    /\ last_signal_time = None
    /\ last_data_time = None
    /\ last_entry_price = None
    /\ order_book = <<>>
    /\ cycles = 0
    /\ inv = NoInvocation
    /\ sizing = NoSizing
    /\ writers = [i \in Instances |-> IdleWriter]
    /\ locks = [i \in Instances |-> FALSE]

Init == InitState /\ faulty = FALSE

\* One invocation of generate_signal on the bars tp, by the scheduler.
RunCycle(tp, is_new) ==
    \E lag \in CycleLags, position_dict \in PositionReports :
        \E wall_clock \in {tp[Len(tp)].Time + lag} :
        \E r0 \in IF wall_clock >= now
                  THEN {generate_signal(Start(0), get_candles(tp, candle_count),
                                        wall_clock, position_dict, backtest_mode)}
                  ELSE {} :
        \E fail_at \in FailPoints(r0.calls) :
        \E r \in {IF fail_at = 0 THEN r0
                  ELSE generate_signal(Start(fail_at), get_candles(tp, candle_count),
                                       wall_clock, position_dict, backtest_mode)} :
            /\ wall_clock >= now
            /\ tape' = tp
            /\ now' = wall_clock
            /\ last_signal_time' = r.lst
            /\ last_data_time' = r.ldt
            /\ last_entry_price' = r.lep
            /\ order_book' = r.book
            /\ cycles' = cycles + 1
            /\ inv' = [kind |-> "cycle", new_bar |-> is_new, position |-> position_dict,
                       pre |-> [lst |-> last_signal_time, ldt |-> last_data_time,
                                lep |-> last_entry_price, book |-> order_book,
                                opened |-> inv.opened],
                       opened |-> Opened(r.events, inv.opened), exit |-> r.exit,
                       events |-> r.events, max_retry |-> DefaultMaxRetry,
                       direction |-> 0, proto |-> Order(0, 0, 0, 0),
                       data_len |-> r.data_len, index0 |-> r.index0, f |-> r.f,
                       new_orders |-> r.new_orders]
            /\ UNCHANGED <<backtest_mode, faulty, sizing, writers, locks>>

\* The scheduler's next call finds a new bar at the head of the candles.
CycleOnNewBar ==
    /\ cycles < MaxCycles
    /\ \E b \in NewBars(tape) : RunCycle(Append(tape, b), TRUE)

\* The scheduler's next call finds the bars of the previous call.
CycleOnSameBars ==
    /\ cycles < MaxCycles
    /\ RunCycle(tape, FALSE)

Next == CycleOnNewBar \/ CycleOnSameBars

Spec == Init /\ [][Next]_vars

\* The same strategy with collaborators whose calls may raise.
InitFaulty == InitState /\ faulty = TRUE /\ backtest_mode = FALSE
SpecFaulty == InitFaulty /\ [][Next]_vars

---------------------------------------------------------------------------
\* place_with_retry called on its own, with any max_retry.
RetryPrices == {1995, 2000, 2009}

RetryCall ==
    /\ inv.kind = "none"
    /\ \E n \in 1..MaxRetry, direction \in {BUY, SELL}, od \in {BUY, SELL},
          offset \in {OPEN, CLOSE_TODAY}, price \in RetryPrices, volume \in 1..MaxLots :
          \E proto \in {Order(od, offset, price, volume)} :
          \E r \in {place_with_retry(Start(0), proto, direction, n, "direct")} :
              /\ order_book' = r.book
              /\ cycles' = cycles + 1
              /\ inv' = [kind |-> "retry", new_bar |-> FALSE, position |-> NoPosition,
                         pre |-> [lst |-> last_signal_time, ldt |-> last_data_time,
                                  lep |-> last_entry_price, book |-> order_book,
                                  opened |-> inv.opened],
                         opened |-> inv.opened, exit |-> "returned",
                         events |-> r.events, max_retry |-> n,
                         direction |-> direction, proto |-> proto,
                         data_len |-> 0, index0 |-> None, f |-> NoFeatures,
                         new_orders |-> <<>>]
              /\ UNCHANGED <<tape, now, backtest_mode, faulty, last_signal_time,
                             last_data_time, last_entry_price, sizing, writers, locks>>

SpecRetry == Init /\ [][RetryCall]_vars

---------------------------------------------------------------------------
\* get_dynamic_volume called on its own, for any trade_num, current volume
\* and window mean (vol_sum / vol_n).
SizingWindows == {1, window_size + 1}

SizingCall ==
    /\ ~sizing.called
    /\ \E base_volume \in -1..MaxTradeNum, cur_volume \in 0..MaxVolume,
          vol_sum \in -1..MaxWindowSum, vol_n \in SizingWindows :
          sizing' = [called |-> TRUE, trade_num |-> base_volume, cur_volume |-> cur_volume,
                     vol_sum |-> vol_sum, vol_n |-> vol_n,
                     volume |-> dynamic_volume_for(base_volume, cur_volume, vol_sum, vol_n)]
    /\ UNCHANGED <<tape, now, backtest_mode, faulty, last_signal_time, last_data_time,
                   last_entry_price, order_book, cycles, inv, writers, locks>>

SpecSizing == Init /\ [][SizingCall]_vars

---------------------------------------------------------------------------
\* write_order statement by statement, run by the threads of several
\* strategy instances of one process on the one file result/order_book.txt.
LogTypes == 0..5
LogPoint == 2000

StrategyIdle ==
    UNCHANGED <<tape, now, backtest_mode, faulty, last_signal_time, last_data_time,
                last_entry_price, cycles, inv, sizing>>

\* def write_order(self, type, point)
WriteOrderCall(i) ==
    /\ writers[i].pc \in {"idle", "raised"}
    /\ writers[i].calls < MaxWrites
    /\ \E type \in LogTypes :
          writers' = [writers EXCEPT ![i] = [pc |-> "called", type |-> type, point |-> LogPoint,
                                            calls |-> @.calls + 1, wrote |-> FALSE]]
    /\ UNCHANGED <<order_book, locks>>
    /\ StrategyIdle

\* if type == 1: line = ... else: raise ValueError("Invalid type")
FormatLine(i) ==
    /\ writers[i].pc = "called"
    /\ writers' = [writers EXCEPT ![i].pc = IF OrderLabel(writers[i].type) = "invalid"
                                           THEN "raised" ELSE "formatted"]
    /\ UNCHANGED <<order_book, locks>>
    /\ StrategyIdle

\* with self.lock:
AcquireLock(i) ==
    /\ writers[i].pc = "formatted"
    /\ ~locks[i]
    /\ locks' = [locks EXCEPT ![i] = TRUE]
    /\ writers' = [writers EXCEPT ![i].pc = "locked"]
    /\ UNCHANGED order_book
    /\ StrategyIdle

\* with open("result/order_book.txt", "a", encoding="utf-8") as f:
OpenLog(i) ==
    /\ writers[i].pc = "locked"
    /\ writers' = [writers EXCEPT ![i].pc = "opened"]
    /\ UNCHANGED <<order_book, locks>>
    /\ StrategyIdle

\* f.write(line): the line goes to the file object's buffer
WriteLine(i) ==
    /\ writers[i].pc = "opened"
    /\ writers' = [writers EXCEPT ![i].pc = "buffered"]
    /\ UNCHANGED <<order_book, locks>>
    /\ StrategyIdle

\* leaving `with open`: the buffer is flushed to the end of the file
CloseLog(i) ==
    /\ writers[i].pc = "buffered"
    /\ order_book' = Append(order_book, [label |-> OrderLabel(writers[i].type),
                                          point |-> writers[i].point])
    /\ writers' = [writers EXCEPT ![i].pc = "closed", ![i].wrote = TRUE]
    /\ UNCHANGED locks
    /\ StrategyIdle

\* leaving `with self.lock`
ReleaseLock(i) ==
    /\ writers[i].pc = "closed"
    /\ locks' = [locks EXCEPT ![i] = FALSE]
    /\ writers' = [writers EXCEPT ![i].pc = "idle"]
    /\ UNCHANGED order_book
    /\ StrategyIdle

NextLog ==
    \E i \in Instances :
        \/ WriteOrderCall(i)
        \/ FormatLine(i)
        \/ AcquireLock(i)
        \/ OpenLog(i)
        \/ WriteLine(i)
        \/ CloseLog(i)
        \/ ReleaseLock(i)

SpecLog == Init /\ [][NextLog]_vars

---------------------------------------------------------------------------
\* Reading the trace of the last invocation.
Ev == inv.events
At(op, site) == {i \in 1..Len(Ev) : Ev[i].op = op /\ Ev[i].site = site}
Placed(site) == At("place_order", site)
Cancelled(site) == At("cancel_order", site)
AllPlaced == {i \in 1..Len(Ev) : Ev[i].op = "place_order"}
AllCancelled == {i \in 1..Len(Ev) : Ev[i].op = "cancel_order"}
AllWritten == {i \in 1..Len(Ev) : Ev[i].op = "write_order"}

\* The k-th placement of the invocation.
KthPlaced(k) == CHOOSE i \in AllPlaced : Cardinality({j \in AllPlaced : j <= i}) = k

\* A retry sequence of the default three attempts was issued from `site`
\* for an order of this direction, offset and volume.
SequenceIssued(site, direction, offset, volume) ==
    /\ Cardinality(Placed(site)) = DefaultMaxRetry
    /\ Cardinality(Cancelled(site)) = DefaultMaxRetry
    /\ \A i \in Placed(site) :
          Ev[i].direction = direction /\ Ev[i].offset = offset /\ Ev[i].volume = volume

\* The invocation went through the data guards to the position snapshot,
\* the risk exits and the signal branches, and returned.
Processed == inv.kind = "cycle" /\ inv.exit = "returned"
Close == inv.f.price
NewestTime == tape[Len(tape)].Time
NewestClose == tape[Len(tape)].Close
LongQty == long_quantity(inv.position)
ShortQty == short_quantity(inv.position)
StateUnchanged ==
    /\ last_signal_time = inv.pre.lst
    /\ last_data_time = inv.pre.ldt
    /\ last_entry_price = inv.pre.lep
    /\ order_book = inv.pre.book

---------------------------------------------------------------------------
\* C1: place_with_retry with max_retry = n issues exactly n placements and n
\* cancellations; the k-th placement is priced k-1 ticks above the template
\* price for a buy and k-1 ticks below it for a sell, so that three attempts
\* move the price by two ticks and no order carries the adjustment made
\* after the last attempt.
C1_RetryPrices ==
    inv.kind = "retry" =>
        /\ Cardinality(AllPlaced) = inv.max_retry
        /\ Cardinality(AllCancelled) = inv.max_retry
        /\ \A k \in 1..inv.max_retry :
              Ev[KthPlaced(k)].price =
                  IF inv.direction = 2 THEN inv.proto.price + (k - 1) * 1
                  ELSE inv.proto.price - (k - 1) * 1
        /\ inv.max_retry = 3 =>
              Ev[KthPlaced(3)].price - Ev[KthPlaced(1)].price =
                  IF inv.direction = 2 THEN 2 ELSE -2

C1_Witness ==
    /\ inv.kind = "retry"
    /\ inv.max_retry = 3
    /\ inv.direction = 3
    /\ Cardinality(AllPlaced) = 3
    /\ Ev[KthPlaced(3)].price = inv.proto.price - 2

\* C2: when BreakoutUp fires with a short position reported, the closing buy
\* sequence (close-today, the full short quantity) is issued, placements and
\* cancellations, before the first opening buy placement, and the opening
\* sequence is issued whatever became of the close; symmetrically for
\* BreakoutDown with a long position.
C2_ReversalOrder ==
    Processed =>
        /\ (BreakoutUp(inv.pre.lst, inv.f) /\ ShortQty > 0) =>
              /\ SequenceIssued("reverse_short", 2, 4, ShortQty)
              /\ Cardinality(Placed("open_long")) = 3
              /\ \A i \in Placed("reverse_short") \cup Cancelled("reverse_short") :
                    \A j \in Placed("open_long") : i < j
        /\ (BreakoutDown(inv.pre.lst, inv.f) /\ LongQty > 0) =>
              /\ SequenceIssued("reverse_long", 3, 4, LongQty)
              /\ Cardinality(Placed("open_short")) = 3
              /\ \A i \in Placed("reverse_long") \cup Cancelled("reverse_long") :
                    \A j \in Placed("open_short") : i < j

C2_Witness ==
    /\ Processed
    /\ BreakoutUp(inv.pre.lst, inv.f)
    /\ ShortQty > 0
    /\ Placed("reverse_short") # {}
    /\ Placed("open_long") # {}

\* C3: in a cycle that reaches the Risk Monitor with a long position and
\* last_entry_price set, the risk exit submits the closing sell sequence
\* (close-today, the full long quantity) iff close - last_entry_price >=
\* take_profit or <= -stop_loss, and last_entry_price is cleared right after
\* that sequence; with entry 100, take-profit 10 and stop-loss 5 the exit
\* fires for every close >= 110 and <= 95 and not at 105; with
\* last_entry_price unset no risk exit is issued.
C3_LongRiskExit ==
    /\ \A c \in 80..130 :
          LongRiskFires(100, [price |-> c], 1) <=> (c >= 110 \/ c <= 95)
    /\ ~LongRiskFires(100, [price |-> 105], 1)
    /\ Processed =>
          /\ (LongQty > 0 /\ inv.pre.lep # None) =>
                /\ Placed("risk_long") # {} <=>
                      (Close - inv.pre.lep >= 10 \/ Close - inv.pre.lep <= -5)
                /\ Placed("risk_long") # {} =>
                      /\ SequenceIssued("risk_long", 3, 4, LongQty)
                      /\ LET last == Max(Cancelled("risk_long"))
                         IN  /\ Ev[last + 1].op = "assign"
                             /\ Ev[last + 1].site = "last_entry_price"
                             /\ Ev[last + 1].price = None
          /\ inv.pre.lep = None =>
                Placed("risk_long") = {} /\ Placed("risk_short") = {}

C3_Witness ==
    /\ Processed
    /\ LongQty > 0
    /\ inv.pre.lep # None
    /\ Close - inv.pre.lep = -5
    /\ Placed("risk_long") # {}
    /\ BreakoutUp(inv.pre.lst, inv.f) = FALSE
    /\ last_entry_price = None

\* C4: the short-side risk check is symmetric to and independent of the
\* long-side check: in a cycle that reaches the Risk Monitor with
\* last_entry_price set and a short position reported, the closing buy
\* sequence for the full short quantity is submitted iff last_entry_price -
\* close >= take_profit or <= -stop_loss, whether or not the long-side exit
\* fired in the same cycle.
C4_ShortRiskIndependent ==
    (Processed /\ ShortQty > 0 /\ inv.pre.lep # None) =>
        (SequenceIssued("risk_short", 2, 4, ShortQty) <=>
            (inv.pre.lep - Close >= 10 \/ inv.pre.lep - Close <= -5))

\* C5: the Risk Monitor runs in every invocation, before any new-signal
\* handling: whenever a reported position's floating profit against the set
\* last_entry_price crosses take_profit or stop_loss the closing sequence is
\* issued in that invocation, all its placements before any reversal-close
\* or opening placement.
SignalPlaced ==
    Placed("reverse_short") \cup Placed("reverse_long") \cup Placed("open_long")
        \cup Placed("open_short")

C5_RiskEveryCycle ==
    (inv.kind = "cycle" /\ inv.pre.lep # None) =>
        /\ (LongQty > 0 /\ (NewestClose - inv.pre.lep >= 10
                             \/ NewestClose - inv.pre.lep <= -5)) =>
              SequenceIssued("risk_long", 3, 4, LongQty)
        /\ (ShortQty > 0 /\ (inv.pre.lep - NewestClose >= 10
                              \/ inv.pre.lep - NewestClose <= -5)) =>
              SequenceIssued("risk_short", 2, 4, ShortQty)
        /\ \A i \in Placed("risk_long") \cup Placed("risk_short") :
              \A j \in SignalPlaced : i < j

\* C6: after an opening sequence for a breakout at bar time T, a later cycle
\* whose newest bar is less than min_interval minutes after T issues no
\* opening order of that direction, and a later cycle whose newest bar is
\* exactly min_interval minutes after T, with the price and volume-surge
\* conditions holding, issues the opening order; with last_signal_time unset
\* the gate is satisfied.  (The later cycle is one the scheduler runs on a
\* new bar that is not more than an hour old, or in backtest mode, with
\* enough bars.)
BarsNow == Reverse(get_candles(tape, candle_count))
SurgeNow == volume_surge(current_volume(BarsNow), window_volume_sum(BarsNow),
                         window_volume_n(BarsNow))
UpNow == UpCondition(current_price(BarsNow), window_high(BarsNow)) /\ SurgeNow
DownNow ==
    /\ ~UpCondition(current_price(BarsNow), window_high(BarsNow))
    /\ DownCondition(current_price(BarsNow), window_low(BarsNow))
    /\ SurgeNow
NewFreshBars ==
    /\ inv.new_bar
    /\ Len(tape) >= 2 * 5
    /\ backtest_mode \/ now - NewestTime <= 3600

C6_MinIntervalGate ==
    inv.kind = "cycle" =>
        /\ (inv.pre.lst # None /\ NewestTime - inv.pre.lst < 5 * 60) =>
              /\ inv.pre.opened = "up" => Placed("open_long") = {}
              /\ inv.pre.opened = "down" => Placed("open_short") = {}
        /\ (inv.pre.lst # None /\ NewestTime - inv.pre.lst = 5 * 60 /\ NewFreshBars) =>
              /\ (inv.pre.opened = "up" /\ UpNow) => Placed("open_long") # {}
              /\ (inv.pre.opened = "down" /\ DownNow) => Placed("open_short") # {}
        /\ check_min_interval(None, NewestTime)

\* C7: in a cycle that passes the data guards an opening buy is issued iff
\* (close >= window_high or close > window_high * 0.999) and volume >
\* window_volume_mean * volume_threshold and the min-interval gate is
\* satisfied; otherwise an opening sell iff (close <= window_low or close <
\* window_low * 1.001) and the same volume and gate conditions; otherwise no
\* opening order.  No cycle issues both, and a bar meeting both price
\* conditions opens long only.  The window is the latest bar and the
\* window_size bars before it.
LastBars == SubSeq(tape, Len(tape) - 5, Len(tape))
C7_Surge == inv.f.volume * inv.f.vol_n * 2 > inv.f.vol_sum * 3
C7_Gate == inv.pre.lst = None \/ inv.f.time - inv.pre.lst >= 5 * 60
C7_Up ==
    /\ inv.f.price >= inv.f.high \/ 1000 * inv.f.price > 999 * inv.f.high
    /\ C7_Surge
    /\ C7_Gate
C7_Down ==
    /\ inv.f.price <= inv.f.low \/ 1000 * inv.f.price < 1001 * inv.f.low
    /\ C7_Surge
    /\ C7_Gate

C7_DetectorDecision ==
    Processed =>
        /\ inv.f.price = NewestClose
        /\ inv.f.time = NewestTime
        /\ inv.f.volume = tape[Len(tape)].Volume
        /\ inv.f.high = Max({LastBars[i].High : i \in 1..Len(LastBars)})
        /\ inv.f.low = Min({LastBars[i].Low : i \in 1..Len(LastBars)})
        /\ inv.f.vol_sum = SumVolume(LastBars)
        /\ inv.f.vol_n = Len(LastBars)
        /\ Placed("open_long") # {} <=> C7_Up
        /\ Placed("open_short") # {} <=> (~C7_Up /\ C7_Down)
        /\ ~(Placed("open_long") # {} /\ Placed("open_short") # {})
        /\ \A i \in Placed("open_long") : Ev[i].direction = 2 /\ Ev[i].offset = 1
        /\ \A i \in Placed("open_short") : Ev[i].direction = 3 /\ Ev[i].offset = 1

C7_Witness ==
    /\ Processed
    /\ Placed("open_long") # {}
    /\ inv.f.price < inv.f.high
    /\ inv.f.price <= inv.f.low

\* C8: an invocation on fewer than 2 * window_size bars, or on the bars of
\* the previous invocation, ends at a data guard: it places and cancels no
\* order, writes no Order Log line and leaves last_signal_time,
\* last_data_time and last_entry_price as they were.
NoOrderActivity == AllPlaced = {} /\ AllCancelled = {} /\ AllWritten = {}

C8_NoOpCycles ==
    (inv.kind = "cycle" /\ (Len(tape) < 2 * 5 \/ (~inv.new_bar /\ cycles >= 2))) =>
        /\ NoOrderActivity
        /\ StateUnchanged
        /\ inv.exit \in {"insufficient", "duplicate", "stale"}

C8_Witness ==
    /\ inv.kind = "cycle"
    /\ cycles = 2
    /\ ~inv.new_bar
    /\ inv.exit = "duplicate"
    /\ tape[Len(tape)].Volume = 3
    /\ LongQty > 0
    /\ last_entry_price # None

\* C9: when the newest bar is more than an hour older than the wall clock, a
\* live cycle places no order and changes no state (last_data_time
\* included), and a backtest cycle does exactly what a cycle on fresh data
\* would do on the same bars, positions and state.
FreshRun ==
    generate_signal([lst |-> inv.pre.lst, ldt |-> inv.pre.ldt, lep |-> inv.pre.lep,
                     book |-> inv.pre.book, events |-> <<>>, raised |-> FALSE, calls |-> 0,
                     failAt |-> 0, nid |-> 0, exit |-> "running", data_len |-> 0,
                     index0 |-> None, f |-> NoFeatures, new_orders |-> <<>>],
                    get_candles(tape, candle_count), NewestTime, inv.position, FALSE)

C9_StalenessGuard ==
    (inv.kind = "cycle" /\ now - NewestTime > 3600) =>
        /\ ~backtest_mode => (NoOrderActivity /\ StateUnchanged)
        /\ backtest_mode =>
              /\ inv.events = FreshRun.events
              /\ inv.exit = FreshRun.exit
              /\ last_signal_time = FreshRun.lst
              /\ last_data_time = FreshRun.ldt
              /\ last_entry_price = FreshRun.lep
              /\ order_book = FreshRun.book

C9_Witness ==
    /\ inv.kind = "cycle"
    /\ backtest_mode
    /\ now - NewestTime = 7200
    /\ Processed
    /\ Placed("open_long") # {}

\* C10: every Order Log line written for a placement carries the label of
\* that order's direction and offset: buy+open buy-open, sell+open
\* sell-open, buy+close buy-close, sell+close sell-close.
ExpectedLabel(direction, offset) ==
    CASE direction = 2 /\ offset = 1 -> "buy_open"
      [] direction = 3 /\ offset = 1 -> "sell_open"
      [] direction = 2 /\ offset = 4 -> "buy_close"
      [] direction = 3 /\ offset = 4 -> "sell_close"
      [] OTHER -> "unknown"

C10_LogLabels ==
    inv.kind = "cycle" =>
        \A i \in AllPlaced :
            /\ Ev[i + 1].op = "write_order"
            /\ Ev[i + 1].label = ExpectedLabel(Ev[i].direction, Ev[i].offset)

\* C11: the Order Log writes of concurrent strategy instances (one per
\* instrument, each on its own thread, all appending to the one log file) are
\* mutually exclusive: at most one instance is inside the open-and-append
\* critical section of write_order at any time.
InCriticalSection(i) == writers[i].pc \in {"opened", "buffered"}

C11_LogMutualExclusion == Cardinality({i \in Instances : InCriticalSection(i)}) <= 1

\* C12: over any sequence of cycles last_entry_price is given a value only
\* after the retry loop of an opening order has been issued in that cycle, and
\* is unset only after a closing order has been issued by the Risk Monitor or
\* the Reversal Handler in that cycle; nothing else (guards, a cycle without
\* signal, order logging) changes it.
EntryAssigns == At("assign", "last_entry_price")
OpenSites == {"open_long", "open_short"}
CloseSites == {"risk_long", "risk_short", "reverse_long", "reverse_short"}
IssuedBefore(sites, i) ==
    {j \in 1..(i - 1) : Ev[j].op = "cancel_order" /\ Ev[j].site \in sites}

C12_EntryPriceDiscipline ==
    inv.kind = "cycle" =>
        /\ \A i \in EntryAssigns :
              /\ Ev[i].price # None =>
                    /\ Cardinality(IssuedBefore(OpenSites, i)) = 3
                    /\ Ev[i].price = NewestClose
              /\ Ev[i].price = None => Cardinality(IssuedBefore(CloseSites, i)) >= 3
        /\ last_entry_price # inv.pre.lep => EntryAssigns # {}
        /\ (last_entry_price # inv.pre.lep /\ last_entry_price # None) =>
              IssuedBefore(OpenSites, Len(Ev) + 1) # {}
        /\ (inv.pre.lep # None /\ last_entry_price = None) =>
              IssuedBefore(CloseSites, Len(Ev) + 1) # {}
        /\ IssuedBefore(OpenSites \cup CloseSites, Len(Ev) + 1) = {} =>
              last_entry_price = inv.pre.lep

C12_Witness ==
    /\ inv.kind = "cycle"
    /\ inv.pre.lep # None
    /\ last_entry_price = None
    /\ Placed("risk_short") # {}
    /\ AllWritten # {}

\* C13: for every trade_num, current_volume >= 0 and window mean,
\* get_dynamic_volume returns clamp(floor(trade_num * current_volume / mean),
\* 1, 5) when the mean is positive and clamp(trade_num, 1, 5) when it is not;
\* the result is an integer in 1..5 and, for fixed trade_num >= 0 and positive
\* means, is non-decreasing in current_volume / mean.
Clamp(x, lo, hi) == IF x < lo THEN lo ELSE IF x > hi THEN hi ELSE x

Failed == {i \in 1..Len(Ev) : ~Ev[i].ok}

C14_FailurePropagates ==
    inv.kind = "cycle" =>
        /\ Cardinality(Failed) <= 1
        /\ \A i \in Failed : i = Len(Ev)
        /\ Failed # {} <=> inv.exit = "raised"

C14_Witness ==
    /\ inv.kind = "cycle"
    /\ inv.exit = "raised"
    /\ Ev[Len(Ev)].op = "cancel_order"
    /\ Ev[Len(Ev)].site = "reverse_short"
    /\ ~Ev[Len(Ev)].ok
    /\ Cardinality(Placed("reverse_short")) = 2
    /\ Placed("open_long") = {}

\* C15: write_order called with an action code outside {1, 2, 3, 4} raises
\* and writes nothing: the call ends at the raise, no line of it reaches the
\* Order Log, and the lock is not held by it; only such calls raise, and
\* every line of the log carries one of the four labels.
C15_InvalidCodeRejected ==
    /\ \A i \in Instances :
          /\ (writers[i].calls > 0 /\ writers[i].type \notin {1, 2, 3, 4}) =>
                /\ writers[i].pc \in {"called", "raised"}
                /\ ~writers[i].wrote
                /\ ~locks[i]
          /\ writers[i].pc = "raised" => writers[i].type \notin {1, 2, 3, 4}
    /\ \A k \in 1..Len(order_book) :
          order_book[k].label \in {"buy_open", "buy_close", "sell_open", "sell_close"}

C15_Witness ==
    \E i \in Instances :
        /\ writers[i].pc = "raised"
        /\ writers[i].type = 5
        /\ ~locks[i]
        /\ Len(order_book) = 1
        /\ \E j \in Instances : j # i /\ writers[j].wrote

\* C16: the list generate_signal returns is the record of the orders
\* submitted in that invocation: empty exactly when no order was placed, and
\* otherwise holding a record for each submitted order.
C16_ReturnedOrders ==
    (inv.kind = "cycle" /\ inv.exit # "raised") =>
        /\ inv.new_orders = <<>> <=> AllPlaced = {}
        /\ Len(inv.new_orders) = Cardinality(AllPlaced)

\* C17: in place_with_retry every attempt is place_order, then the Order Log
\* line with that placement's price, then cancel_order of the identifier the
\* placement returned, and the cancel of an attempt precedes the next
\* placement; so an instance never has more than one order placed and not
\* yet cancelled, the log grows by one line per placement, and its earlier
\* lines stay as they were.
Outstanding(n) ==
    Cardinality({i \in AllPlaced : i <= n}) - Cardinality({i \in AllCancelled : i <= n})

C17_RetryStepOrder ==
    inv.kind = "cycle" =>
        /\ \A i \in AllPlaced :
              /\ i + 2 <= Len(Ev)
              /\ Ev[i + 1].op = "write_order"
              /\ Ev[i + 1].price = Ev[i].price
              /\ Ev[i + 2].op = "cancel_order"
              /\ Ev[i + 2].id = Ev[i].id
              /\ \A j \in AllPlaced : j # i => Ev[j].id # Ev[i].id
        /\ \A n \in 0..Len(Ev) : Outstanding(n) \in {0, 1}
        /\ Outstanding(Len(Ev)) = 0
        /\ Len(order_book) = Len(inv.pre.book) + Cardinality(AllPlaced)
        /\ SubSeq(order_book, 1, Len(inv.pre.book)) = inv.pre.book
        /\ \A k \in 1..Cardinality(AllPlaced) :
              order_book[Len(inv.pre.book) + k].point = Ev[KthPlaced(k)].price

C17_Witness ==
    /\ inv.kind = "cycle"
    /\ Len(inv.pre.book) = 3
    /\ Cardinality(AllPlaced) = 6
    /\ Placed("reverse_long") # {}
    /\ Len(order_book) = 9

\* C18: the duplicate-data guard is keyed on the newest bar: last_data_time
\* holds the timestamp of the newest bar of the last processed cycle, so a
\* cycle is skipped as duplicate iff its newest bar is the newest bar of the
\* last processed cycle, and a cycle that delivers a newer bar than any seen
\* before is never skipped as duplicate.
C18_DuplicateGuardOnNewest ==
    inv.kind = "cycle" =>
        /\ Processed => last_data_time = NewestTime
        /\ inv.exit = "duplicate" => NewestTime = inv.pre.ldt
        /\ inv.new_bar => inv.exit # "duplicate"

\* C19: within one invocation at most one closing retry sequence is issued
\* for a side: the Risk Monitor and the Reversal Handler never both close the
\* same long (or short) position, so the closing volume submitted for a side
\* in one cycle does not exceed the quantity the broker reported for it.
C19_OneClosePerSide ==
    inv.kind = "cycle" =>
        /\ ~(Placed("risk_long") # {} /\ Placed("reverse_long") # {})
        /\ ~(Placed("risk_short") # {} /\ Placed("reverse_short") # {})
        /\ Cardinality(Placed("risk_long") \cup Placed("reverse_long")) <= 3
        /\ Cardinality(Placed("risk_short") \cup Placed("reverse_short")) <= 3

\* C20: no order is left outstanding: every place_order that returned an
\* identifier is followed, before generate_signal exits, by cancel_order of
\* that identifier, whether the invocation returns normally or is aborted by
\* a failure of the Order Log write that follows the placement.
C20_NoOrderLeftOutstanding ==
    inv.kind = "cycle" =>
        \A i \in AllPlaced :
            Ev[i].ok =>
                \E j \in AllCancelled : j > i /\ Ev[j].id = Ev[i].id

\* C21: over any sequence of cycles two consecutive opening sequences, of
\* the same or of opposite directions, are issued for latest-bar times at
\* least min_interval minutes apart: last_signal_time is one value for both
\* directions, it is the latest-bar time of the last opening sequence, and a
\* cycle that issues no opening sequence (a risk exit or a reversal close
\* alone, a guard return) leaves it as it was.
OpeningPlaced == Placed("open_long") \cup Placed("open_short")

C21_SignalSpacing ==
    inv.kind = "cycle" =>
        /\ OpeningPlaced # {} =>
              /\ last_signal_time = NewestTime
              /\ inv.pre.lst # None => NewestTime - inv.pre.lst >= 5 * 60
              /\ Cardinality(OpeningPlaced) = 3
        /\ OpeningPlaced = {} => last_signal_time = inv.pre.lst
        /\ last_signal_time # None <=> inv.opened # "none"
        /\ \A i \in At("assign", "last_signal_time") :
              /\ Cardinality(IssuedBefore(OpenSites, i)) = 3
              /\ Ev[i].price = NewestTime

C21_Witness ==
    /\ inv.kind = "cycle"
    /\ inv.pre.opened = "down"
    /\ Placed("open_long") # {}
    /\ Placed("risk_short") # {}
    /\ NewestTime - inv.pre.lst = 300

\* C22: a live cycle (backtest_mode = false) whose newest bar is at most one
\* hour older than the wall clock is never skipped by the staleness guard,
\* whatever the age of the older bars fetched.
C22_FreshNewestNotStale ==
    (inv.kind = "cycle" /\ ~backtest_mode /\ now - NewestTime <= 3600) =>
        inv.exit # "stale"

====
